---- MODULE Spec2Model ----
(***************************************************************************)
(* State-machine model of the blog API (apps/blog, apps/users).            *)
(*                                                                         *)
(* The database tables are functions from primary key to row, the shared   *)
(* cache is a function from key to value (a key that is not in its domain  *)
(* is a missing or expired entry), and `resp' is the HTTP response of the  *)
(* last request together with the request's identity and target.           *)
(***************************************************************************)
EXTENDS Integers, Sequences, FiniteSets, TLC

\* ------------------------------------------------------------------ bounds
MaxPostId == 2          \* post primary keys are 1..MaxPostId
MaxCommentId == 1       \* comment primary keys are 1..MaxCommentId
MaxWindowRequests == 2  \* create-post requests considered per counter window
MaxOptionalFields == 1  \* optional keys (beyond title and body) in one request body
TickSeconds == 30       \* seconds that pass in one step of the clock
MaxUserId == 3          \* user primary keys are 1..MaxUserId
MaxCategoryId == 3      \* category primary keys are 1..MaxCategoryId
MaxTagId == 2           \* tag primary keys are 1..MaxTagId
MaxRawMessages == 1     \* payloads published on the channel by other clients
MaxRaceRequests == 6    \* requests served by concurrent workers in one run
MaxListRequests == 2    \* anonymous list requests served by concurrent workers in one run
MaxGeneratedUserId == 5 \* user primary keys reach MaxGeneratedUserId when users are generated

\* --------------------------------------------------------- program constants
HTTP_200_OK == 200
HTTP_201_CREATED == 201
HTTP_204_NO_CONTENT == 204
HTTP_205_RESET_CONTENT == 205
HTTP_400_BAD_REQUEST == 400
HTTP_401_UNAUTHORIZED == 401
HTTP_404_NOT_FOUND == 404
HTTP_429_TOO_MANY_REQUESTS == 429
CreateLimit == 20       \* is_rate_limited(request, 'create', 20)
MinTitleLen == 5        \* validate_title
MinCommentLen == 3      \* validate_body
LoginLimit == 5         \* is_rate_limited(request, 'login', 5)
RegisterLimit == 10     \* is_rate_limited(request, 'register', 10)
RateWindow == 60        \* cache.set(cache_key, count + 1, timeout=60)
FallbackCategories == 5 \* self._generate_categories(5)
FallbackTags == 10      \* self._generate_tags(10)
MaxPostTags == 5        \* random.randint(0, min(5, len(tags)))

\* ------------------------------------------------------------- value spaces
Anonymous == 0                       \* request.user of an unauthenticated request
UserIds == {1, 2}
NoCategory == 0                      \* category = NULL
CategoryIds == {1}
TagIds == {1}
DRAFT == "draft"
PUBLISHED == "published"
StatusChoices == {DRAFT, PUBLISHED}
Ips == {"ip1"}
Slugs == {"hello", "nope"}    \* slugs a URL can carry
CommentBodies == {"ok", "nice", "good"}
Names == {"Ann", "Bob"}
Passwords == {"pw1", "pw2"}

VARIABLES
    users,       \* CustomUser table: id -> [email, full_name, password, is_active,
                 \*                         is_staff, is_superuser]
    categories,  \* Category table: id -> [name, slug]
    tags,        \* Tag table: id -> [name, slug]
    posts,       \* Post table: id -> [author, title, slug, body, category, tags, status]
    comments,    \* Comment table: id -> [post, author, body]
    next_post_id,
    next_comment_id,
    sequences,   \* next primary key of the users, categories and tags tables
    cache,       \* django cache: key -> value
    pubsub,      \* messages published on the redis channel 'comments'
    listener,    \* the listen_comments process: [state, pos, out]
    redis_reachable, \* whether the redis server of the cache and pub/sub answers
    requests,    \* requests being served by concurrent workers: id -> locals
    resp         \* last request and its response

vars == <<users, categories, tags, posts, comments, next_post_id,
          next_comment_id, sequences, cache, pubsub, listener, redis_reachable,
          requests, resp>>

db == <<users, categories, tags, posts, comments, next_post_id, next_comment_id,
        sequences>>

\* ----------------------------------------------------------------- strings
\* len(value) for the strings that occur as titles and bodies
StrLen(s) ==
    CASE s = "Hi" -> 2
      [] s = "Hello" -> 5
      [] s = "World" -> 5
      [] s = "ok" -> 2
      [] s = "nice" -> 4
      [] s = "good" -> 4
      [] OTHER -> 0

\* ----------------------------------------------------------- function helpers
Remove(f, ks) == [k \in DOMAIN f \ ks |-> f[k]]

Put(f, k, v) == [x \in DOMAIN f \cup {k} |-> IF x = k THEN v ELSE f[x]]

RECURSIVE SortedIds(_)
SortedIds(S) ==
    IF S = {} THEN <<>>
    ELSE LET m == CHOOSE x \in S : \A y \in S : x <= y
         IN <<m>> \o SortedIds(S \ {m})

\* ------------------------------------------------------------- query strings
\* request.query_params of a list request, restricted to the five listing
\* parameters; "" is a parameter that the URL does not carry
NoQuery == [page |-> "", ordering |-> "", search |-> "", category |-> "", status |-> ""]

QueryParams ==
    {NoQuery, [NoQuery EXCEPT !.status = "draft"], [NoQuery EXCEPT !.page = "2"],
     [NoQuery EXCEPT !.search = "hello"]}

\* ------------------------------------------------------------- responses
Response(op, user, slug, pk, status) ==
    [op |-> op, user |-> user, slug |-> slug, pk |-> pk, status |-> status,
     posts |-> <<>>, total_posts |-> 0, log |-> "none", query |-> NoQuery,
     ip |-> "", tokens |-> FALSE, names |-> << >>]

ListResponse(user, payload, total, log) ==
    [op |-> "list", user |-> user, slug |-> "", pk |-> 0, status |-> HTTP_200_OK,
     posts |-> payload, total_posts |-> total, log |-> log, query |-> NoQuery,
     ip |-> "", tokens |-> FALSE, names |-> << >>]

\* ---------------------------------------------------------------- requests
\* A request body: `supplied' names the JSON keys that are present; a key
\* that is not supplied carries a fixed filler value.
PostInputs ==
    { d \in [supplied : SUBSET {"title", "body", "category", "tags", "status", "author"},
             title : {"Hi", "World"},
             body : {"text2"},
             category : {NoCategory, 1, 2},
             tags : SUBSET TagIds,
             status : StatusChoices,
             author : UserIds] :
        /\ Cardinality(d.supplied \ {"title", "body"}) <= MaxOptionalFields
        /\ ("title" \notin d.supplied => d.title = "World")
        /\ ("category" \notin d.supplied => d.category = NoCategory)
        /\ ("tags" \notin d.supplied => d.tags = {})
        /\ ("status" \notin d.supplied => d.status = DRAFT)
        /\ ("author" \notin d.supplied => d.author = 1) }

\* -------------------------------------------------------------- the cache
published_posts_key == <<"published_posts">>

rate_limit_key(action_name, ip) == <<"rate_limit", action_name, ip>>

cache_has(c, key) == key \in DOMAIN c

\* A rate-limit entry is [count, ttl, age]: the stored counter, the seconds
\* left of its timeout, and the seconds since the entry came into being
\* (age is not stored by the cache; it dates the first counted request).
\* cache.get(cache_key, 0) of is_rate_limited
cache_get_count(c, key) == IF cache_has(c, key) THEN c[key].count ELSE 0

cache_get_age(c, key) == IF cache_has(c, key) THEN c[key].age ELSE 0

cache_set(c, key, value) == Put(c, key, value)

cache_delete(c, key) == Remove(c, {key})

\* is_rate_limited: TRUE when the request is refused
is_rate_limited(c, action_name, ip, limit) ==
    cache_get_count(c, rate_limit_key(action_name, ip)) >= limit

\* the cache after is_rate_limited has run
rate_limit_touch(c, action_name, ip, limit) ==
    IF is_rate_limited(c, action_name, ip, limit) THEN c
    ELSE cache_set(c, rate_limit_key(action_name, ip),
                   [count |-> cache_get_count(c, rate_limit_key(action_name, ip)) + 1,
                    ttl |-> RateWindow,
                    age |-> cache_get_age(c, rate_limit_key(action_name, ip))])

\* ------------------------------------------------------------- serializers
CategorySerializer(cid) ==
    IF cid = NoCategory THEN <<>>
    ELSE <<[id |-> cid, name |-> categories[cid].name, slug |-> categories[cid].slug]>>

TagSerializer(tid) == [id |-> tid, name |-> tags[tid].name, slug |-> tags[tid].slug]

\* PostSerializer(post).data
PostSerializer(id) ==
    [id |-> id,
     title |-> posts[id].title,
     slug |-> posts[id].slug,
     body |-> posts[id].body,
     author_info |-> [id |-> posts[id].author,
                      full_name |-> users[posts[id].author].full_name],
     category |-> CategorySerializer(posts[id].category),
     tags |-> {TagSerializer(t) : t \in posts[id].tags},
     status |-> posts[id].status,
     is_published |-> (posts[id].status = PUBLISHED)]

\* PostSerializer(queryset, many=True).data
PostSerializerMany(ids) ==
    LET order == SortedIds(ids)
    IN [i \in 1..Len(order) |-> PostSerializer(order[i])]

\* title validation shared by CreatePostSerializer and EditPostSerializer
validate_title(value) == StrLen(value) >= MinTitleLen

\* field validation of the two post serializers (partial: no key is required)
PostFieldsValid(d) ==
    /\ ("title" \in d.supplied => validate_title(d.title))
    /\ ("category" \in d.supplied =>
            d.category = NoCategory \/ d.category \in DOMAIN categories)
    /\ ("tags" \in d.supplied => d.tags \subseteq DOMAIN tags)
    /\ ("status" \in d.supplied => d.status \in StatusChoices)

CreatePostSerializer_is_valid(d) ==
    /\ {"title", "body"} \subseteq d.supplied
    /\ PostFieldsValid(d)

EditPostSerializer_is_valid(d) == PostFieldsValid(d)

\* mutation of save_author: an author key of the request body wins
save_author_from_body(user, d) == IF "author" \in d.supplied THEN d.author ELSE user

\* the author of a row created by serializer.save(author=request.user)
save_author(user, d) == user

\* CreatePostSerializer.create: the new row (the slug column gets its default)
CreatePostSerializer_create(user, d) ==
    [author |-> save_author(user, d),
     title |-> d.title,
     slug |-> "",
     body |-> d.body,
     category |-> IF "category" \in d.supplied THEN d.category ELSE NoCategory,
     tags |-> IF "tags" \in d.supplied THEN d.tags ELSE {},
     status |-> IF "status" \in d.supplied THEN d.status ELSE DRAFT]

\* mutation of EditPostSerializer.update: the tags are set from the input even
\* when the input has no tags key
EditPostSerializer_update_tags_always(instance, d) ==
    [author |-> instance.author,
     title |-> IF "title" \in d.supplied THEN d.title ELSE instance.title,
     slug |-> instance.slug,
     body |-> IF "body" \in d.supplied THEN d.body ELSE instance.body,
     category |-> IF "category" \in d.supplied THEN d.category ELSE instance.category,
     tags |-> d.tags,
     status |-> IF "status" \in d.supplied THEN d.status ELSE instance.status]

\* EditPostSerializer.update
EditPostSerializer_update(instance, d) ==
    [author |-> instance.author,
     title |-> IF "title" \in d.supplied THEN d.title ELSE instance.title,
     slug |-> instance.slug,
     body |-> IF "body" \in d.supplied THEN d.body ELSE instance.body,
     category |-> IF "category" \in d.supplied THEN d.category ELSE instance.category,
     tags |-> IF "tags" \in d.supplied THEN d.tags ELSE instance.tags,
     status |-> IF "status" \in d.supplied THEN d.status ELSE instance.status]

\* ------------------------------------------------------------- permissions
is_authenticated(user) == user # Anonymous

\* IsCreatePostOrReadOnly.has_permission for a non-safe method
IsCreatePostOrReadOnly(user) == is_authenticated(user)

\* IsAddCommentOrReadOnly.has_permission for a non-safe method
IsAddCommentOrReadOnly(user) == is_authenticated(user)

\* IsPublishedOrEdit defines has_object_permission only; the viewsets never
\* call check_object_permissions, so the request-level check is the
\* inherited BasePermission.has_permission.
IsPublishedOrEdit(user) == TRUE

\* ------------------------------------------------------------------ lookup
\* Post.objects.get(slug=slug): the ids of the matching rows
PostBySlug(slug) == {id \in DOMAIN posts : posts[id].slug = slug}

PostsOf(user) == {id \in DOMAIN posts : posts[id].author = user}

\* mutation of CommentsOn: deleting a post leaves its comments
CommentsOn_kept(ps) == {}

CommentsOn(ps) == {c \in DOMAIN comments : comments[c].post \in ps}

Requesters == DOMAIN users \cup {Anonymous}

\* ================================================================ PostViewSet
\* `if cached_data:' - a cached value counts only when it is a non-empty list
cache_hit(c) ==
    /\ cache_has(c, published_posts_key)
    /\ Len(c[published_posts_key]) > 0

\* mutation of published_queryset: the status filter is left out
published_queryset_unfiltered == DOMAIN posts

\* Post.objects.filter(status=Post.Status.PUBLISHED)
published_queryset == {id \in DOMAIN posts : posts[id].status = PUBLISHED}

\* mutation of authenticated_queryset: the Q(author=request.user) term is left out
authenticated_queryset_published_only(user) ==
    {id \in DOMAIN posts : posts[id].status = PUBLISHED}

\* Post.objects.filter(Q(status=PUBLISHED) | Q(author=request.user))
authenticated_queryset(user) ==
    {id \in DOMAIN posts : posts[id].status = PUBLISHED \/ posts[id].author = user}

\* the response of PostViewSet.list in the current state
list_response(user) ==
    IF is_authenticated(user)
    THEN ListResponse(user, PostSerializerMany(authenticated_queryset(user)),
                      Cardinality(authenticated_queryset(user)), "db")
    ELSE IF cache_hit(cache)
    THEN ListResponse(user, cache[published_posts_key],
                      Len(cache[published_posts_key]), "hit")
    ELSE ListResponse(user, PostSerializerMany(published_queryset),
                      Cardinality(published_queryset), "miss")

\* the cache key of a list request: list() never reads request.query_params
list_cache_key(query) == published_posts_key

PostViewSet_list(user, query) ==
    /\ IsPublishedOrEdit(user)
    /\ IF ~is_authenticated(user) /\ ~redis_reachable
       THEN \* cache.get raises the connection error of the client: uncaught
            /\ resp' = [Response("list", user, "", 0, 500) EXCEPT !.query = query]
            /\ cache' = cache
       ELSE /\ resp' = [list_response(user) EXCEPT !.query = query]
            /\ cache' = IF is_authenticated(user) \/ cache_hit(cache) THEN cache
                        ELSE cache_set(cache, list_cache_key(query),
                                       PostSerializerMany(published_queryset))
    /\ UNCHANGED <<db, pubsub, listener, redis_reachable, requests>>

\* PostViewSet.list for an anonymous client served by one of several workers,
\* up to and including `cached_data = cache.get(cache_key)': on a hit the
\* response is returned, on a miss the worker goes on to the database
PostViewSet_list_get ==
    /\ Len(requests) < MaxListRequests
    /\ redis_reachable
    /\ IF cache_hit(cache)
       THEN /\ resp' = list_response(Anonymous)
            /\ requests' = Append(requests, [action |-> "list", pc |-> "done",
                                             payload |-> << >>])
       ELSE /\ requests' = Append(requests, [action |-> "list", pc |-> "miss",
                                             payload |-> << >>])
            /\ UNCHANGED resp
    /\ UNCHANGED <<db, cache, pubsub, listener, redis_reachable>>

\* the same request: the queryset is evaluated and serialized
PostViewSet_list_query(r) ==
    /\ r \in DOMAIN requests
    /\ requests[r].action = "list"
    /\ requests[r].pc = "miss"
    /\ requests' = [requests EXCEPT ![r].pc = "queried",
                                    ![r].payload = PostSerializerMany(published_queryset)]
    /\ UNCHANGED <<db, cache, pubsub, listener, redis_reachable, resp>>

\* the same request: cache.set(cache_key, serializer.data, timeout=60) and
\* the response, both with the data serialized earlier
PostViewSet_list_set(r) ==
    /\ r \in DOMAIN requests
    /\ requests[r].action = "list"
    /\ requests[r].pc = "queried"
    /\ cache' = cache_set(cache, list_cache_key(NoQuery), requests[r].payload)
    /\ resp' = ListResponse(Anonymous, requests[r].payload,
                            Len(requests[r].payload), "miss")
    /\ requests' = [requests EXCEPT ![r].pc = "done", ![r].payload = << >>]
    /\ UNCHANGED <<db, pubsub, listener, redis_reachable>>

\* mutation of create_invalidate: the cache entry is kept
create_invalidate_skipped(c) == c

\* cache.delete('published_posts') after a successful create
create_invalidate(c) == cache_delete(c, published_posts_key)

PostViewSet_create(user, ip, bodies) ==
    /\ UNCHANGED <<sequences, listener, redis_reachable, requests, users, categories, tags, comments,
                   next_comment_id, pubsub>>
    /\ IF ~IsCreatePostOrReadOnly(user)
       THEN /\ resp' = Response("create", user, "", 0, HTTP_401_UNAUTHORIZED)
            /\ UNCHANGED <<posts, next_post_id, cache>>
       ELSE IF ~redis_reachable
       THEN \* cache.get of is_rate_limited raises: uncaught, nothing is saved
            /\ resp' = Response("create", user, "", 0, 500)
            /\ UNCHANGED <<posts, next_post_id, cache>>
       ELSE IF is_rate_limited(cache, "create", ip, CreateLimit)
       THEN /\ resp' = Response("create", user, "", 0, HTTP_429_TOO_MANY_REQUESTS)
            /\ UNCHANGED <<posts, next_post_id, cache>>
       ELSE LET counted == rate_limit_touch(cache, "create", ip, CreateLimit) IN
            IF ~is_authenticated(user)
            THEN /\ resp' = Response("create", user, "", 0, HTTP_401_UNAUTHORIZED)
                 /\ cache' = counted
                 /\ UNCHANGED <<posts, next_post_id>>
            ELSE \E d \in bodies :
                IF ~CreatePostSerializer_is_valid(d)
                THEN /\ resp' = Response("create", user, "", 0, HTTP_400_BAD_REQUEST)
                     /\ cache' = counted
                     /\ UNCHANGED <<posts, next_post_id>>
                ELSE IF PostBySlug(CreatePostSerializer_create(user, d).slug) # {}
                THEN \* IntegrityError on the unique slug column: uncaught
                     /\ resp' = Response("create", user, "", 0, 500)
                     /\ cache' = counted
                     /\ UNCHANGED <<posts, next_post_id>>
                ELSE /\ next_post_id <= MaxPostId
                     /\ posts' = Put(posts, next_post_id, CreatePostSerializer_create(user, d))
                     /\ next_post_id' = next_post_id + 1
                     /\ cache' = create_invalidate(counted)
                     /\ resp' = Response("create", user, "", next_post_id, HTTP_201_CREATED)

PostViewSet_retrieve(user, slug) ==
    /\ IsPublishedOrEdit(user)
    /\ UNCHANGED <<db, cache, pubsub, listener, redis_reachable, requests>>
    /\ IF PostBySlug(slug) = {}
       THEN resp' = Response("retrieve", user, slug, 0, HTTP_404_NOT_FOUND)
       ELSE resp' = [Response("retrieve", user, slug, 0, HTTP_200_OK)
                        EXCEPT !.posts = PostSerializerMany(PostBySlug(slug))]

\* DATABASES['default']['ATOMIC_REQUESTS']: a view that ends in an exception
\* has its database writes rolled back
ATOMIC_REQUESTS == TRUE

\* mutation of update_denied: the author test is left out
update_denied_never(post, user) == FALSE

\* `if post.author != request.user' of PostViewSet.update
update_denied(post, user) == post.author # user

\* cache.delete('published_posts') after a successful update
update_invalidate(c) == cache_delete(c, published_posts_key)

PostViewSet_update(user, slug, bodies) ==
    /\ IsPublishedOrEdit(user)
    /\ UNCHANGED <<sequences, listener, redis_reachable, requests, users, categories, tags, comments, next_post_id,
                   next_comment_id, pubsub>>
    /\ IF ~is_authenticated(user)
       THEN /\ resp' = Response("update", user, slug, 0, HTTP_401_UNAUTHORIZED)
            /\ UNCHANGED <<posts, cache>>
       ELSE IF PostBySlug(slug) = {}
       THEN /\ resp' = Response("update", user, slug, 0, HTTP_404_NOT_FOUND)
            /\ UNCHANGED <<posts, cache>>
       ELSE LET id == CHOOSE i \in PostBySlug(slug) : TRUE IN
            IF update_denied(posts[id], user)
            THEN /\ resp' = Response("update", user, slug, 0, HTTP_401_UNAUTHORIZED)
                 /\ UNCHANGED <<posts, cache>>
            ELSE \E d \in bodies :
                IF EditPostSerializer_is_valid(d)
                THEN \* serializer.save() comes first; cache.delete raises when
                     \* the server does not answer: uncaught, and the
                     \* transaction of the request is rolled back
                     /\ posts' = IF redis_reachable \/ ~ATOMIC_REQUESTS
                                 THEN [posts EXCEPT ![id] = EditPostSerializer_update(posts[id], d)]
                                 ELSE posts
                     /\ cache' = IF redis_reachable THEN update_invalidate(cache) ELSE cache
                     /\ resp' = Response("update", user, slug, id,
                                         IF redis_reachable THEN HTTP_200_OK ELSE 500)
                ELSE /\ resp' = Response("update", user, slug, 0, HTTP_400_BAD_REQUEST)
                     /\ UNCHANGED <<posts, cache>>

\* cache.delete('published_posts') after a delete
destroy_invalidate(c) == cache_delete(c, published_posts_key)

\* PostViewSet.destroy has no author test between the lookup and post.delete()
PostViewSet_destroy(user, slug) ==
    /\ IsPublishedOrEdit(user)
    /\ UNCHANGED <<sequences, listener, redis_reachable, requests, users, categories, tags, next_post_id,
                   next_comment_id, pubsub>>
    /\ IF ~is_authenticated(user)
       THEN /\ resp' = Response("destroy", user, slug, 0, HTTP_401_UNAUTHORIZED)
            /\ UNCHANGED <<posts, comments, cache>>
       ELSE IF PostBySlug(slug) = {}
       THEN /\ resp' = Response("destroy", user, slug, 0, HTTP_404_NOT_FOUND)
            /\ UNCHANGED <<posts, comments, cache>>
       ELSE /\ posts' = IF redis_reachable \/ ~ATOMIC_REQUESTS
                        THEN Remove(posts, PostBySlug(slug)) ELSE posts
            /\ comments' = IF redis_reachable \/ ~ATOMIC_REQUESTS
                           THEN Remove(comments, CommentsOn(PostBySlug(slug)))
                           ELSE comments
            /\ cache' = IF redis_reachable THEN destroy_invalidate(cache) ELSE cache
            /\ resp' = Response("destroy", user, slug, 0,
                                IF redis_reachable THEN HTTP_204_NO_CONTENT ELSE 500)

\* TickSeconds pass: a rate-limit entry whose timeout has run out is gone,
\* the others are that much older (an age beyond RateWindow is kept as
\* RateWindow + 1)
is_rate_limit_key(key) == key[1] = "rate_limit"

cache_after(c, seconds) ==
    [key \in {k \in DOMAIN c : is_rate_limit_key(k) => c[k].ttl > seconds} |->
        IF is_rate_limit_key(key)
        THEN [count |-> c[key].count,
              ttl |-> c[key].ttl - seconds,
              age |-> IF c[key].age + seconds > RateWindow THEN RateWindow + 1
                      ELSE c[key].age + seconds]
        ELSE c[key]]

clock_tick ==
    /\ \E key \in DOMAIN cache : is_rate_limit_key(key)
    /\ cache' = cache_after(cache, TickSeconds)
    /\ resp' = Response("tick", Anonymous, "", 0, 0)
    /\ UNCHANGED <<db, pubsub, listener, redis_reachable, requests>>

\* the TTL (timeout=60) of a cache entry runs out
cache_expire(key) ==
    /\ cache_has(cache, key)
    /\ cache' = cache_delete(cache, key)
    /\ resp' = Response("expire", Anonymous, "", 0, 0)
    /\ UNCHANGED <<db, pubsub, listener, redis_reachable, requests>>

\* ============================================================ comments
CommentInputs ==
    { d \in [supplied : {{}, {"body"}, {"body", "author", "post"}},
             body : CommentBodies,
             author : UserIds,
             post : 1..MaxPostId] :
        /\ ("body" \notin d.supplied => d.body = "ok")
        /\ ("author" \notin d.supplied => d.author = 1 /\ d.post = 1) }

\* CommentSerializer: body is its only writable field and is required
CommentSerializer_is_valid(d) == "body" \in d.supplied

\* EditCommentSerializer.validate_body (partial update: body may be omitted)
EditCommentSerializer_is_valid(d) ==
    "body" \in d.supplied => StrLen(d.body) >= MinCommentLen

\* serializer.save(author=request.user, post=post)
CommentSerializer_save(user, post_id, d) ==
    [post |-> post_id, author |-> user, body |-> d.body]

\* EditCommentSerializer.update
EditCommentSerializer_update(instance, d) ==
    [instance EXCEPT !.body = IF "body" \in d.supplied THEN d.body ELSE instance.body]

\* json.dumps(event): the text published on the channel
json_dumps(event) == [kind |-> "json", value |-> event]

\* the message of published_comment_event
comment_event(id, comment) ==
    [event |-> "comment_published",
     data |-> [comment_id |-> id, post_id |-> comment.post,
               author_id |-> comment.author, content |-> comment.body]]

\* mutation of published_comment_event: no `except Exception' around the publish
published_comment_event_uncaught(channel, id, comment) ==
    [channel |-> IF redis_reachable
                 THEN Append(channel, json_dumps(comment_event(id, comment)))
                 ELSE channel,
     raised |-> ~redis_reachable]

\* published_comment_event: the channel afterwards and whether an exception
\* leaves the function; get_client() or publish() fails when the server does
\* not answer, and `except Exception' logs the failure
published_comment_event(channel, id, comment) ==
    [channel |-> IF redis_reachable
                 THEN Append(channel, json_dumps(comment_event(id, comment)))
                 ELSE channel,
     raised |-> FALSE]

\* POST /api/posts/{slug}/comments/
PostViewSet_comments(user, slug, bodies) ==
    /\ UNCHANGED <<sequences, listener, redis_reachable, requests, users, categories, tags, posts, next_post_id, cache>>
    /\ IF ~IsAddCommentOrReadOnly(user)
       THEN /\ resp' = Response("comment_create", user, slug, 0, HTTP_401_UNAUTHORIZED)
            /\ UNCHANGED <<comments, next_comment_id, pubsub>>
       ELSE IF PostBySlug(slug) = {}
       THEN /\ resp' = Response("comment_create", user, slug, 0, HTTP_404_NOT_FOUND)
            /\ UNCHANGED <<comments, next_comment_id, pubsub>>
       ELSE LET post_id == CHOOSE i \in PostBySlug(slug) : TRUE IN
            \E d \in bodies :
                IF CommentSerializer_is_valid(d)
                THEN /\ next_comment_id <= MaxCommentId
                     /\ comments' = Put(comments, next_comment_id,
                                        CommentSerializer_save(user, post_id, d))
                     /\ next_comment_id' = next_comment_id + 1
                     /\ LET published == published_comment_event(pubsub, next_comment_id,
                                              CommentSerializer_save(user, post_id, d)) IN
                          /\ pubsub' = published.channel
                          /\ resp' = Response("comment_create", user, slug,
                                              next_comment_id,
                                              IF published.raised THEN 500
                                              ELSE HTTP_201_CREATED)
                ELSE /\ resp' = Response("comment_create", user, slug, 0, HTTP_400_BAD_REQUEST)
                     /\ UNCHANGED <<comments, next_comment_id, pubsub>>

\* mutation of comment_destroy_denied: the author test is left out
comment_destroy_denied_never(comment, user) == FALSE

\* `if comment.author != request.user' of CommentViewSet.destroy
comment_destroy_denied(comment, user) == comment.author # user

\* `if comment.author != request.user' of CommentViewSet.partial_update
comment_update_denied(comment, user) == comment.author # user

CommentViewSet_destroy(user, pk) ==
    /\ UNCHANGED <<sequences, listener, redis_reachable, requests, users, categories, tags, posts, next_post_id,
                   next_comment_id, cache, pubsub>>
    /\ IF ~IsAddCommentOrReadOnly(user) \/ ~is_authenticated(user)
       THEN /\ resp' = Response("comment_destroy", user, "", pk, HTTP_401_UNAUTHORIZED)
            /\ UNCHANGED comments
       ELSE IF pk \notin DOMAIN comments
       THEN /\ resp' = Response("comment_destroy", user, "", pk, HTTP_404_NOT_FOUND)
            /\ UNCHANGED comments
       ELSE IF comment_destroy_denied(comments[pk], user)
       THEN /\ resp' = Response("comment_destroy", user, "", pk, HTTP_401_UNAUTHORIZED)
            /\ UNCHANGED comments
       ELSE /\ comments' = Remove(comments, {pk})
            /\ resp' = Response("comment_destroy", user, "", pk, HTTP_204_NO_CONTENT)

CommentViewSet_partial_update(user, pk, bodies) ==
    /\ UNCHANGED <<sequences, listener, redis_reachable, requests, users, categories, tags, posts, next_post_id,
                   next_comment_id, cache, pubsub>>
    /\ IF ~IsAddCommentOrReadOnly(user) \/ ~is_authenticated(user)
       THEN /\ resp' = Response("comment_update", user, "", pk, HTTP_401_UNAUTHORIZED)
            /\ UNCHANGED comments
       ELSE IF pk \notin DOMAIN comments
       THEN /\ resp' = Response("comment_update", user, "", pk, HTTP_404_NOT_FOUND)
            /\ UNCHANGED comments
       ELSE IF comment_update_denied(comments[pk], user)
       THEN /\ resp' = Response("comment_update", user, "", pk, HTTP_401_UNAUTHORIZED)
            /\ UNCHANGED comments
       ELSE \E d \in bodies :
            IF EditCommentSerializer_is_valid(d)
            THEN /\ comments' = [comments EXCEPT ![pk] = EditCommentSerializer_update(comments[pk], d)]
                 /\ resp' = Response("comment_update", user, "", pk, HTTP_200_OK)
            ELSE /\ resp' = Response("comment_update", user, "", pk, HTTP_400_BAD_REQUEST)
                 /\ UNCHANGED comments

\* ================================================================ UserViewSet
\* set_password / check_password: the stored value is a hash of the raw one
make_password(raw) == <<"hash", raw>>

check_password(user_row, raw) == user_row.password = make_password(raw)

\* apps/users/permissions.py is not part of the sources: owner-or-read-only
\* as section 4.2 states it - only the resource's own identity may write.
IsOwnerOrReadOnly(user, pk) == user = pk

\* mutation of UserViewSet_get_permissions: 'destroy' is missing from the
\* owner-only actions
UserViewSet_get_permissions_lax(action, user, pk) ==
    IF action \in {"list", "retrieve"} THEN "ok"
    ELSE IF ~is_authenticated(user) THEN "401"
    ELSE IF action \in {"update_profile", "change_password"} /\ user # pk
    THEN "403"
    ELSE "ok"

\* UserViewSet.get_permissions for a non-safe method; "ok", or the status of
\* the refusal (NotAuthenticated 401, PermissionDenied 403)
UserViewSet_get_permissions(action, user, pk) ==
    IF action \in {"list", "retrieve"} THEN "ok"
    ELSE IF ~is_authenticated(user) THEN "401"
    ELSE IF action \in {"update_profile", "change_password", "destroy"}
            /\ ~IsOwnerOrReadOnly(user, pk)
    THEN "403"
    ELSE "ok"

Refusal(verdict) == IF verdict = "401" THEN HTTP_401_UNAUTHORIZED ELSE 403

\* user.delete(): Post.author, Comment.author and Comment.post are CASCADE
UserViewSet_destroy(user, pk) ==
    /\ UNCHANGED <<sequences, listener, redis_reachable, requests, categories, tags, next_post_id, next_comment_id,
                   cache, pubsub>>
    /\ IF UserViewSet_get_permissions("destroy", user, pk) # "ok"
       THEN /\ resp' = Response("user_destroy", user, "", pk,
                                Refusal(UserViewSet_get_permissions("destroy", user, pk)))
            /\ UNCHANGED <<users, posts, comments>>
       ELSE IF pk \notin DOMAIN users
       THEN /\ resp' = Response("user_destroy", user, "", pk, HTTP_404_NOT_FOUND)
            /\ UNCHANGED <<users, posts, comments>>
       ELSE /\ users' = Remove(users, {pk})
            /\ posts' = Remove(posts, PostsOf(pk))
            /\ comments' = Remove(comments,
                  CommentsOn(PostsOf(pk)) \cup {c \in DOMAIN comments : comments[c].author = pk})
            /\ resp' = Response("user_destroy", user, "", pk, HTTP_205_RESET_CONTENT)

ProfileInputs ==
    { d \in [supplied : SUBSET {"full_name"}, full_name : Names \cup {""}] :
        "full_name" \notin d.supplied => d.full_name = "" }

\* UpdateUserProfileSerializer: full_name may be omitted, never blank
UpdateUserProfileSerializer_is_valid(d) ==
    "full_name" \in d.supplied => d.full_name # ""

UserViewSet_update_profile(user, pk, bodies) ==
    /\ UNCHANGED <<sequences, listener, redis_reachable, requests, categories, tags, posts, comments, next_post_id,
                   next_comment_id, cache, pubsub>>
    /\ IF UserViewSet_get_permissions("update_profile", user, pk) # "ok"
       THEN /\ resp' = Response("update_profile", user, "", pk,
                                Refusal(UserViewSet_get_permissions("update_profile", user, pk)))
            /\ UNCHANGED users
       ELSE IF pk \notin DOMAIN users
       THEN /\ resp' = Response("update_profile", user, "", pk, HTTP_404_NOT_FOUND)
            /\ UNCHANGED users
       ELSE \E d \in bodies :
            IF UpdateUserProfileSerializer_is_valid(d)
            THEN /\ users' = [users EXCEPT ![pk].full_name =
                                 IF "full_name" \in d.supplied THEN d.full_name ELSE @]
                 /\ resp' = Response("update_profile", user, "", pk, HTTP_200_OK)
            ELSE /\ resp' = Response("update_profile", user, "", pk, HTTP_400_BAD_REQUEST)
                 /\ UNCHANGED users

PasswordInputs ==
    [old_password : Passwords, new_password : Passwords, new_password_confirm : Passwords]

\* ChangePasswordSerializer is a ModelSerializer that declares no Meta class:
\* building its fields fails an assertion before any validation runs.
ChangePasswordSerializer_has_Meta == FALSE

\* "error" (the assertion), "valid" or "invalid"
ChangePasswordSerializer_is_valid(user, d) ==
    IF ~ChangePasswordSerializer_has_Meta THEN "error"
    ELSE IF /\ check_password(users[user], d.old_password)
            /\ d.new_password = d.new_password_confirm
    THEN "valid"
    ELSE "invalid"

UserViewSet_change_password(user, pk, bodies) ==
    /\ UNCHANGED <<sequences, listener, redis_reachable, requests, categories, tags, posts, comments, next_post_id,
                   next_comment_id, cache, pubsub>>
    /\ IF UserViewSet_get_permissions("change_password", user, pk) # "ok"
       THEN /\ resp' = Response("change_password", user, "", pk,
                                Refusal(UserViewSet_get_permissions("change_password", user, pk)))
            /\ UNCHANGED users
       ELSE IF pk \notin DOMAIN users
       THEN /\ resp' = Response("change_password", user, "", pk, HTTP_404_NOT_FOUND)
            /\ UNCHANGED users
       ELSE \E d \in bodies :
            IF ChangePasswordSerializer_is_valid(user, d) = "error"
            THEN /\ resp' = Response("change_password", user, "", pk, 500)
                 /\ UNCHANGED users
            ELSE IF ChangePasswordSerializer_is_valid(user, d) = "valid"
            THEN /\ users' = [users EXCEPT ![pk].password = make_password(d.new_password)]
                 /\ resp' = Response("change_password", user, "", pk, HTTP_200_OK)
            ELSE /\ resp' = Response("change_password", user, "", pk, HTTP_400_BAD_REQUEST)
                 /\ UNCHANGED users

\* ================================================================ AuthViewSet
\* email addresses a request can carry: two spellings of a seeded account's
\* address, an address no account has, and a string that is no address
Emails == {"a@x.io", "A@x.io", "c@x.io", "nomail"}

\* EmailField: the value has the form of an address
EmailField_is_valid(value) == value # "nomail" /\ value # ""

\* value.lower().strip()
lower(value) == IF value = "A@x.io" THEN "a@x.io" ELSE value

\* full_name.title()
title(value) == IF value = "bob" THEN "Bob" ELSE value

UserByEmail(email) == {u \in DOMAIN users : users[u].email = email}

\* the response of rate_limit_handler
rate_limit_handler(op, user, ip) ==
    [Response(op, user, "", 0, HTTP_429_TOO_MANY_REQUESTS) EXCEPT !.ip = ip]

AuthResponse(op, ip, pk, status, tokens) ==
    [Response(op, Anonymous, "", pk, status) EXCEPT !.ip = ip, !.tokens = tokens]

\* ---- login
LoginInputs == [email : Emails, password : Passwords]

\* django.contrib.auth.authenticate with the model backend: the account
\* whose email is the given one, if the password matches and the account is
\* active; {} stands for None
authenticate(email, password) ==
    {u \in UserByEmail(email) : check_password(users[u], password) /\ users[u].is_active}

\* LoginSerializer.is_valid: "invalid" (a field error), "error" (validate
\* reads user.is_active before it tests `if not user', which fails on None),
\* or "valid"
LoginSerializer_is_valid(d) ==
    IF ~EmailField_is_valid(d.email) THEN "invalid"
    ELSE IF authenticate(d.email, d.password) = {} THEN "error"
    ELSE "valid"

AuthViewSet_login(ip, bodies) ==
    /\ UNCHANGED <<db, pubsub, listener, redis_reachable, requests>>
    /\ IF is_rate_limited(cache, "login", ip, LoginLimit)
       THEN /\ resp' = rate_limit_handler("login", Anonymous, ip)
            /\ UNCHANGED cache
       ELSE /\ cache' = rate_limit_touch(cache, "login", ip, LoginLimit)
            /\ \E d \in bodies :
                 IF LoginSerializer_is_valid(d) = "valid"
                 THEN resp' = AuthResponse("login", ip,
                                  CHOOSE u \in authenticate(d.email, d.password) : TRUE,
                                  HTTP_200_OK, TRUE)
                 ELSE IF LoginSerializer_is_valid(d) = "error"
                 THEN resp' = AuthResponse("login", ip, 0, 500, FALSE)
                 ELSE resp' = AuthResponse("login", ip, 0, HTTP_400_BAD_REQUEST, FALSE)

\* AuthViewSet.login served by one of several workers, up to and including
\* `count = cache.get(cache_key, 0)' of is_rate_limited: the worker holds the
\* value it has read
AuthViewSet_login_get(ip) ==
    /\ Len(requests) < MaxRaceRequests
    /\ requests' = Append(requests,
                          [action |-> "login", ip |-> ip, pc |-> "get",
                           count |-> cache_get_count(cache, rate_limit_key("login", ip))])
    /\ UNCHANGED <<db, cache, pubsub, listener, redis_reachable, resp>>

\* the rest of the same request: `if count >= limit: return True', else
\* cache.set(cache_key, count + 1, timeout=60) with the value read earlier,
\* then the handler's validation and response
AuthViewSet_login_set(r, bodies) ==
    /\ r \in DOMAIN requests
    /\ requests[r].pc = "get"
    /\ UNCHANGED <<db, pubsub, listener, redis_reachable>>
    /\ IF requests[r].count >= LoginLimit
       THEN /\ requests' = [requests EXCEPT ![r].pc = "refused"]
            /\ resp' = rate_limit_handler("login", Anonymous, requests[r].ip)
            /\ UNCHANGED cache
       ELSE /\ requests' = [requests EXCEPT ![r].pc = "admitted"]
            /\ cache' = cache_set(cache, rate_limit_key("login", requests[r].ip),
                            [count |-> requests[r].count + 1,
                             ttl |-> RateWindow,
                             age |-> cache_get_age(cache,
                                        rate_limit_key("login", requests[r].ip))])
            /\ \E d \in bodies :
                 IF LoginSerializer_is_valid(d) = "valid"
                 THEN resp' = AuthResponse("login", requests[r].ip,
                                  CHOOSE u \in authenticate(d.email, d.password) : TRUE,
                                  HTTP_200_OK, TRUE)
                 ELSE IF LoginSerializer_is_valid(d) = "error"
                 THEN resp' = AuthResponse("login", requests[r].ip, 0, 500, FALSE)
                 ELSE resp' = AuthResponse("login", requests[r].ip, 0,
                                           HTTP_400_BAD_REQUEST, FALSE)

\* the admin site's change form of CustomUser: the active flag of an account
CustomUserAdmin_change(pk, is_active) ==
    /\ pk \in DOMAIN users
    /\ users' = [users EXCEPT ![pk].is_active = is_active]
    /\ resp' = Response("admin_user_change", Anonymous, "", pk, HTTP_200_OK)
    /\ UNCHANGED <<categories, tags, posts, comments, next_post_id, next_comment_id,
                   sequences, cache, pubsub, listener, redis_reachable, requests>>

\* ---- register
RegisterInputs ==
    [email : Emails, full_name : {"bob", ""}, password : Passwords, password1 : Passwords]

\* mutation of RegisterSerializer_is_valid: validate() does not compare the
\* two passwords
RegisterSerializer_is_valid_unconfirmed(d) ==
    /\ EmailField_is_valid(d.email)
    /\ UserByEmail(d.email) = {}
    /\ d.full_name # ""

\* RegisterSerializer.is_valid: the fields (format, not blank, UniqueValidator
\* of the email column on the value as sent), then validate()
RegisterSerializer_is_valid(d) ==
    /\ EmailField_is_valid(d.email)
    /\ UserByEmail(d.email) = {}
    /\ d.full_name # ""
    /\ d.password = d.password1

\* RegisterSerializer.create -> CustomUserManager.create_user: the new row
create_user(email, full_name, password) ==
    [email |-> email, full_name |-> full_name, password |-> make_password(password),
     is_active |-> TRUE, is_staff |-> FALSE, is_superuser |-> FALSE]

RegisterSerializer_create(d) == create_user(lower(d.email), title(d.full_name), d.password)

AuthViewSet_register(ip, bodies) ==
    /\ UNCHANGED <<categories, tags, posts, comments, next_post_id, next_comment_id,
                   pubsub, listener, redis_reachable, requests>>
    /\ IF is_rate_limited(cache, "register", ip, RegisterLimit)
       THEN /\ resp' = rate_limit_handler("register", Anonymous, ip)
            /\ UNCHANGED <<users, sequences, cache>>
       ELSE /\ cache' = rate_limit_touch(cache, "register", ip, RegisterLimit)
            /\ \E d \in bodies :
                 IF ~RegisterSerializer_is_valid(d)
                 THEN /\ resp' = AuthResponse("register", ip, 0, HTTP_400_BAD_REQUEST, FALSE)
                      /\ UNCHANGED <<users, sequences>>
                 ELSE IF UserByEmail(RegisterSerializer_create(d).email) # {}
                 THEN \* IntegrityError on the unique email column: uncaught
                      /\ resp' = AuthResponse("register", ip, 0, 500, FALSE)
                      /\ UNCHANGED <<users, sequences>>
                 ELSE /\ sequences.users <= MaxUserId
                      /\ users' = Put(users, sequences.users, RegisterSerializer_create(d))
                      /\ sequences' = [sequences EXCEPT !.users = @ + 1]
                      /\ resp' = AuthResponse("register", ip, sequences.users,
                                              HTTP_201_CREATED, TRUE)

\* ============================================================ generate_blog
\* the curated name pools of the command (30 and 55 names in the source)
category_names == {"Technology", "Programming"}
tag_names == {"python"}

\* django.utils.text.slugify on the names and titles that occur
slugify(value) ==
    CASE value = "Technology" -> "technology"
      [] value = "Programming" -> "programming"
      [] value = "Hello" -> "hello"
      [] value = "World" -> "world"
      [] OTHER -> value

\* f"{original_slug}-{counter}"
Suffixed(original_slug, counter) == original_slug \o "-" \o ToString(counter)

\* `while slug in existing_slugs: slug = f"{original_slug}-{counter}"; counter += 1'
RECURSIVE unique_slug(_, _, _, _)
unique_slug(slug, original_slug, counter, existing_slugs) ==
    IF slug \notin existing_slugs THEN slug
    ELSE unique_slug(Suffixed(original_slug, counter), original_slug, counter + 1,
                     existing_slugs)

Min(a, b) == IF a < b THEN a ELSE b

\* random.shuffle(names); names[:count] - the sequences it can yield
Shuffled(names, count) ==
    {q \in [1..Min(count, Cardinality(names)) -> names] :
        \A i, j \in DOMAIN q : i # j => q[i] # q[j]}

\* the loop of _generate_categories and _generate_tags: one row per name
RECURSIVE named_rows(_, _)
named_rows(selected_names, existing_slugs) ==
    IF Len(selected_names) = 0 THEN << >>
    ELSE LET name == Head(selected_names)
             slug == unique_slug(slugify(name), slugify(name), 1, existing_slugs)
         IN <<[name |-> name, slug |-> slug]>>
              \o named_rows(Tail(selected_names), existing_slugs \cup {slug})

SlugsOf(table) == {table[k].slug : k \in DOMAIN table}

\* Category.objects.bulk_create(categories, ignore_conflicts=True): a row
\* that violates the unique name or the unique slug is dropped silently (its
\* primary key is drawn from the sequence all the same)
RECURSIVE bulk_create_categories(_, _, _)
bulk_create_categories(table, next_id, rows) ==
    IF Len(rows) = 0 THEN [table |-> table, next_id |-> next_id]
    ELSE LET row == Head(rows)
             conflict == \E c \in DOMAIN table :
                             table[c].name = row.name \/ table[c].slug = row.slug
         IN bulk_create_categories(IF conflict THEN table ELSE Put(table, next_id, row),
                                   next_id + 1, Tail(rows))

\* Tag.objects.bulk_create(tags, ignore_conflicts=True): the slug alone is unique
RECURSIVE bulk_create_tags(_, _, _)
bulk_create_tags(table, next_id, rows) ==
    IF Len(rows) = 0 THEN [table |-> table, next_id |-> next_id]
    ELSE LET row == Head(rows)
             conflict == \E t \in DOMAIN table : table[t].slug = row.slug
         IN bulk_create_tags(IF conflict THEN table ELSE Put(table, next_id, row),
                             next_id + 1, Tail(rows))

\* _generate_categories(count) on a category table
generate_categories(table, next_id, selected_names) ==
    bulk_create_categories(table, next_id, named_rows(selected_names, SlugsOf(table)))

\* _generate_tags(count) on a tag table
generate_tags(table, next_id, selected_names) ==
    bulk_create_tags(table, next_id, named_rows(selected_names, SlugsOf(table)))

\* the values Faker yields for a title and for a paragraph
fake_titles == {"Hello"}
fake_paragraph == "nice"

\* the random draws of the post loop and of the comment loop
PostDraws(count, category_list, tag_list) ==
    [1..count -> [title : fake_titles,
                  author : DOMAIN users,
                  category : category_list \cup {NoCategory},
                  status : StatusChoices,
                  tags : {T \in SUBSET tag_list : Cardinality(T) <= MaxPostTags}]]

CommentDraws(count, post_list) ==
    [1..count -> [post : post_list, author : DOMAIN users]]

\* the loop of _generate_posts: one row per draw, slugs made unique
RECURSIVE generated_posts(_, _)
generated_posts(draws, existing_slugs) ==
    IF Len(draws) = 0 THEN << >>
    ELSE LET d == Head(draws)
             slug == unique_slug(slugify(d.title), slugify(d.title), 1, existing_slugs)
         IN <<[author |-> d.author, title |-> d.title, slug |-> slug, body |-> "text1",
               category |-> d.category, tags |-> d.tags, status |-> d.status]>>
              \o generated_posts(Tail(draws), existing_slugs \cup {slug})

\* bulk_create(rows): the rows get consecutive primary keys
RECURSIVE bulk_create(_, _, _)
bulk_create(table, next_id, rows) ==
    IF Len(rows) = 0 THEN [table |-> table, next_id |-> next_id]
    ELSE bulk_create(Put(table, next_id, Head(rows)), next_id + 1, Tail(rows))

\* comment.body[:100] (every body of the model is shorter)
truncate100(body) == body

\* the event of _publish_comment_events
generated_comment_event(id, comment, post_table) ==
    [event |-> "comment_created",
     data |-> [id |-> id, post_id |-> comment.post,
               post_title |-> post_table[comment.post].title,
               author_id |-> comment.author,
               author_name |-> users[comment.author].full_name,
               body |-> truncate100(comment.body)]]

\* the command's options after --full has been applied
GenOptions ==
    [categories : -1..2, tags : 0..1, posts : 0..1, comments : 0..1,
     publish_events : BOOLEAN, clear : BOOLEAN, confirm : {"yes", "no"}]

\* _validate_options: TRUE when no CommandError is raised
validate_options(options) ==
    /\ ~( /\ options.categories = 0 /\ options.tags = 0
          /\ options.posts = 0 /\ options.comments = 0
          /\ ~options.clear )
    /\ options.categories >= 0 /\ options.tags >= 0
    /\ options.posts >= 0 /\ options.comments >= 0

CommandResponse(log) == [Response("generate_blog", Anonymous, "", 0, 0) EXCEPT !.log = log]

\* the patterns of _invalidate_cache, 'myapp:1:posts_*' and so on: the part
\* of the key name before the underscore
invalidate_patterns == {"posts", "post", "comments", "categories", "tags"}

\* redis_client.keys(pattern): a key matches when its name begins with the
\* pattern's word followed by an underscore
glob_match(pattern, key) == key[1] = pattern

\* _invalidate_cache: the keys that match a pattern are deleted
generator_invalidate(c) ==
    [key \in {k \in DOMAIN c : \A p \in invalidate_patterns : ~glob_match(p, k)}
        |-> c[key]]

\* Command.handle of generate_blog
generate_blog(options) ==
    /\ UNCHANGED <<users, listener, redis_reachable, requests>>
    /\ IF ~validate_options(options)
       THEN /\ resp' = CommandResponse("CommandError")
            /\ UNCHANGED <<categories, tags, posts, comments, next_post_id,
                           next_comment_id, sequences, pubsub, cache>>
       ELSE
       LET cleared == options.clear /\ options.confirm = "yes"
           categories0 == IF cleared THEN << >> ELSE categories
           tags0 == IF cleared THEN << >> ELSE tags
           posts0 == IF cleared THEN << >> ELSE posts
           comments0 == IF cleared THEN << >> ELSE comments
           n_categories == IF options.categories > 0 THEN options.categories
                           ELSE IF options.posts > 0 THEN FallbackCategories ELSE 0
           n_tags == IF options.tags > 0 THEN options.tags
                     ELSE IF options.posts > 0 THEN FallbackTags ELSE 0
       IN
       IF DOMAIN users = {}
       THEN /\ resp' = CommandResponse("CommandError")
            /\ categories' = categories0 /\ tags' = tags0
            /\ posts' = posts0 /\ comments' = comments0
            /\ UNCHANGED <<next_post_id, next_comment_id, sequences, pubsub, cache>>
       ELSE
       \E selected_categories \in Shuffled(category_names, n_categories) :
       \E selected_tags \in Shuffled(tag_names, n_tags) :
       LET c1 == generate_categories(categories0, sequences.categories, selected_categories)
           t1 == generate_tags(tags0, sequences.tags, selected_tags)
           category_list == IF n_categories > 0 THEN DOMAIN c1.table ELSE {}
           tag_list == IF n_tags > 0 THEN DOMAIN t1.table ELSE {}
       IN
       /\ c1.next_id <= MaxCategoryId + 1
       /\ t1.next_id <= MaxTagId + 1
       /\ next_post_id + options.posts <= MaxPostId + 1
       /\ \E post_draws \in PostDraws(options.posts, category_list, tag_list) :
          LET p1 == bulk_create(posts0, next_post_id,
                                generated_posts(post_draws, SlugsOf(posts0)))
              post_list == IF options.posts > 0 THEN DOMAIN p1.table
                           ELSE {id \in DOMAIN posts0 : posts0[id].status = PUBLISHED}
              n_comments == IF post_list = {} THEN 0 ELSE options.comments
          IN
          /\ next_comment_id + n_comments <= MaxCommentId + 1
          /\ \E comment_draws \in CommentDraws(n_comments, post_list) :
             LET new_comments == [i \in 1..n_comments |->
                                     [post |-> comment_draws[i].post,
                                      author |-> comment_draws[i].author,
                                      body |-> fake_paragraph]]
                 m1 == bulk_create(comments0, next_comment_id, new_comments)
             IN
             /\ categories' = c1.table
             /\ tags' = t1.table
             /\ posts' = p1.table
             /\ comments' = m1.table
             /\ next_post_id' = p1.next_id
             /\ next_comment_id' = m1.next_id
             /\ sequences' = [sequences EXCEPT !.categories = c1.next_id,
                                               !.tags = t1.next_id]
             \* a failure of the redis client is caught in _invalidate_cache and
             \* in _publish_comment_events
             /\ cache' = IF redis_reachable THEN generator_invalidate(cache) ELSE cache
             /\ pubsub' = IF options.publish_events /\ redis_reachable
                          THEN pubsub \o [i \in 1..n_comments |->
                                   json_dumps(generated_comment_event(
                                       next_comment_id + i - 1, new_comments[i], p1.table))]
                          ELSE pubsub
             /\ resp' = [CommandResponse("done") EXCEPT !.names = selected_categories]

\* ========================================================== listen_comments
\* the keys of data['data'] that the summary reads
summary_keys == {"id", "post_title", "author_email", "body"}

\* a payload on the channel that is no JSON text
raw_payload == [kind |-> "text", value |-> [text |-> "not json"]]

\* what the loop body does with one message: "summary" (two lines written),
\* "decode_error" (json.JSONDecodeError caught, one line written) or
\* "KeyError" (raised while the summary is formatted; nothing catches it)
listener_outcome(message) ==
    IF message.kind # "json" THEN "decode_error"
    ELSE IF /\ "event" \in DOMAIN message.value
            /\ "data" \in DOMAIN message.value
            /\ summary_keys \subseteq DOMAIN message.value.data
    THEN "summary"
    ELSE "KeyError"

\* the lines written for a message
listener_output(message) ==
    IF listener_outcome(message) = "summary"
    THEN <<[line |-> "summary", event |-> message.value.event,
            id |-> message.value.data.id]>>
    ELSE IF listener_outcome(message) = "decode_error"
    THEN <<[line |-> "Failed to decode message", event |-> "", id |-> 0]>>
    ELSE << >>

\* one turn of `for message in pubsub.listen()'
listen_comments_message ==
    /\ listener.state = "listening"
    /\ listener.pos < Len(pubsub)
    /\ listener' =
          [state |-> IF listener_outcome(pubsub[listener.pos + 1]) = "KeyError"
                     THEN "crashed" ELSE "listening",
           pos |-> listener.pos + 1,
           out |-> listener.out \o listener_output(pubsub[listener.pos + 1])]
    /\ resp' = Response("listen", Anonymous, "", 0, 0)
    /\ UNCHANGED <<db, cache, pubsub, redis_reachable, requests>>

\* Ctrl+C: `except KeyboardInterrupt' unsubscribes and the command returns
listen_comments_interrupt ==
    /\ listener.state = "listening"
    /\ listener' = [listener EXCEPT !.state = "stopped",
                        !.out = Append(@, [line |-> "Stopped listening.",
                                           event |-> "", id |-> 0])]
    /\ resp' = Response("interrupt", Anonymous, "", 0, 0)
    /\ UNCHANGED <<db, cache, pubsub, redis_reachable, requests>>

\* another client of the redis server publishes on the channel
publish_raw ==
    /\ Cardinality({i \in DOMAIN pubsub : pubsub[i].kind = "text"}) < MaxRawMessages
    /\ pubsub' = Append(pubsub, raw_payload)
    /\ resp' = Response("publish_raw", Anonymous, "", 0, 0)
    /\ UNCHANGED <<db, cache, listener, redis_reachable, requests>>

\* ============================================================ the admin site
\* deleting a category on the admin site: Post.category is on_delete=SET_NULL
CategoryAdmin_delete(cid) ==
    /\ cid \in DOMAIN categories
    /\ categories' = Remove(categories, {cid})
    /\ posts' = [id \in DOMAIN posts |->
                    IF posts[id].category = cid
                    THEN [posts[id] EXCEPT !.category = NoCategory]
                    ELSE posts[id]]
    /\ resp' = Response("admin_category_delete", Anonymous, "", cid, HTTP_200_OK)
    /\ UNCHANGED <<users, tags, comments, next_post_id, next_comment_id, sequences,
                   cache, pubsub, listener, redis_reachable, requests>>

\* ============================================================ generate_users
\* `max_attempts = 10' of _create_user_instance
max_attempts == 10

\* the addresses fake.email() can return
fake_emails == {"a@x.io", "f@x.io"}

\* what fake.email() returns to one call of _create_user_instance: `collisions'
\* addresses that are in used_emails, then `email'
EmailStreams == [collisions : {0, max_attempts}, email : fake_emails]

\* a stream the generator can meet when used_emails is `used'
stream_possible(stream, used) ==
    /\ (stream.collisions > 0 => fake_emails \cap used # {})
    /\ (stream.collisions < max_attempts => stream.email \notin used)

\* the for/else of _create_user_instance: the first address that is not in
\* used_emails among max_attempts draws, "" (None) when there is none
unique_email(stream) ==
    IF stream.collisions >= max_attempts THEN "" ELSE stream.email

\* CustomUser(email, full_name, is_active=True, is_staff=is_superuser,
\* is_superuser=is_superuser) with set_password('password123')
user_instance(email, is_superuser) ==
    [email |-> email, full_name |-> "Ann", password |-> make_password("password123"),
     is_active |-> TRUE, is_staff |-> is_superuser, is_superuser |-> is_superuser]

\* the loops of _generate_users over the first `regular_count' streams
\* (regular users) and the others (superusers): the instances in the order
\* of bulk_create, a None being skipped; `possible' is FALSE when a stream
\* cannot occur with the addresses used so far
RECURSIVE user_instances(_, _, _, _)
user_instances(streams, i, regular_count, used_emails) ==
    IF i > Len(streams) THEN [rows |-> << >>, possible |-> TRUE]
    ELSE LET email == unique_email(streams[i])
             rest == user_instances(streams, i + 1, regular_count,
                                    IF email = "" THEN used_emails
                                    ELSE used_emails \cup {email})
         IN [rows |-> IF email = "" THEN rest.rows
                      ELSE <<user_instance(email, i > regular_count)>> \o rest.rows,
             possible |-> stream_possible(streams[i], used_emails) /\ rest.possible]

\* CustomUser.objects.bulk_create: the rows get the next primary keys
RECURSIVE bulk_create_users(_, _, _)
bulk_create_users(table, next_id, rows) ==
    IF rows = << >> THEN table
    ELSE bulk_create_users(Put(table, next_id, Head(rows)), next_id + 1, Tail(rows))

UserGenOptions ==
    [count : -1..2, superusers : -1..3, clear : BOOLEAN, confirm : {"yes", "no"}]

\* Command.handle of generate_users
generate_users(options) ==
    /\ UNCHANGED <<categories, tags, next_post_id, next_comment_id, cache, pubsub,
                   listener, redis_reachable, requests>>
    /\ IF \/ options.count < 0
          \/ options.superusers < 0
          \/ options.superusers > options.count
       THEN /\ resp' = [Response("generate_users", Anonymous, "", 0, 0)
                           EXCEPT !.log = "CommandError"]
            /\ UNCHANGED <<users, posts, comments, sequences>>
       ELSE
       LET cleared == options.clear /\ DOMAIN users # {} /\ options.confirm = "yes"
           users0 == IF cleared THEN << >> ELSE users
           used_emails == {users0[u].email : u \in DOMAIN users0}
       IN
       \E streams \in [1..options.count -> EmailStreams] :
       LET made == user_instances(streams, 1, options.count - options.superusers,
                                  used_emails)
       IN
       /\ made.possible
       /\ sequences.users + Len(made.rows) <= MaxGeneratedUserId + 1
       /\ users' = bulk_create_users(users0, sequences.users, made.rows)
       /\ sequences' = [sequences EXCEPT !.users = @ + Len(made.rows)]
       \* CustomUser.objects.all().delete() cascades to every post and comment
       /\ posts' = IF cleared THEN << >> ELSE posts
       /\ comments' = IF cleared THEN << >> ELSE comments
       /\ resp' = [Response("generate_users", Anonymous, "", 0, 0)
                      EXCEPT !.log = "done", !.total_posts = Len(made.rows)]

\* ================================================================ the system
\* the request bodies that supply no key outside `keys'
Supplying(bodies, keys) == {d \in bodies : d.supplied \subseteq keys}

\* A deployment seeded by the generators: two users, one category, one tag
\* and one post titled "Hello" (slug hello) of user 1, published or draft;
\* nothing cached, nothing published, the listener subscribed.
SeedPost(author, slug, status) ==
    [author |-> author, title |-> "Hello", slug |-> slug, body |-> "text1",
     category |-> NoCategory, tags |-> {}, status |-> status]

\* the email addresses of the seeded accounts
SeedEmail(u) == IF u = 1 THEN "a@x.io" ELSE "b@x.io"

Init ==
    /\ users = [u \in UserIds |->
                  [email |-> SeedEmail(u), full_name |-> "Ann",
                   password |-> make_password("pw1"), is_active |-> TRUE,
                   is_staff |-> FALSE, is_superuser |-> FALSE]]
    /\ categories = [c \in CategoryIds |-> [name |-> "Technology", slug |-> "technology"]]
    /\ tags = [t \in TagIds |-> [name |-> "python", slug |-> "python"]]
    /\ \E status \in StatusChoices : posts = (1 :> SeedPost(1, "hello", status))
    /\ comments = << >>
    /\ next_post_id = 2
    /\ next_comment_id = 1
    /\ sequences = [users |-> 3, categories |-> 2, tags |-> 2]
    /\ cache = << >>
    /\ pubsub = << >>
    /\ listener = [state |-> "listening", pos |-> 0, out |-> << >>]
    /\ redis_reachable = TRUE
    /\ requests = << >>
    /\ resp = Response("none", Anonymous, "", 0, 0)

\* ---- the post endpoints, the list cache and account deletion
CreateBodies == Supplying(PostInputs, {"title", "body", "status"})
UpdateBodies == Supplying(PostInputs, {"title", "status"})

create_step ==
    \E u \in Requesters : \E ip \in Ips :
        /\ cache_get_count(cache, rate_limit_key("create", ip)) < MaxWindowRequests
        /\ PostViewSet_create(u, ip, CreateBodies)

Next ==
    \/ \E u \in Requesters : PostViewSet_list(u, NoQuery)
    \/ create_step
    \/ \E u \in Requesters : \E slug \in Slugs : PostViewSet_retrieve(u, slug)
    \/ \E u \in Requesters : \E slug \in Slugs : PostViewSet_update(u, slug, UpdateBodies)
    \/ \E u \in Requesters : \E slug \in Slugs : PostViewSet_destroy(u, slug)
    \/ \E u \in Requesters : \E pk \in UserIds : UserViewSet_destroy(u, pk)
    \/ \E key \in DOMAIN cache : cache_expire(key)

Spec == Init /\ [][Next]_vars

\* ---- list requests with query strings
NextList ==
    \/ \E u \in Requesters : \E q \in QueryParams : PostViewSet_list(u, q)
    \/ create_step
    \/ \E u \in Requesters : \E slug \in Slugs : PostViewSet_update(u, slug, UpdateBodies)
    \/ \E key \in DOMAIN cache : cache_expire(key)

SpecList == Init /\ [][NextList]_vars

\* ---- login, with the clock
NextLogin ==
    \/ \E ip \in Ips : AuthViewSet_login(ip, LoginInputs)
    \/ \E pk \in UserIds : \E flag \in BOOLEAN : CustomUserAdmin_change(pk, flag)
    \/ clock_tick

SpecLogin == Init /\ [][NextLogin]_vars

\* ---- registration, with the clock
NextRegister ==
    \/ \E ip \in Ips : AuthViewSet_register(ip, RegisterInputs)
    \/ clock_tick

SpecRegister == Init /\ [][NextRegister]_vars

\* ---- the generator's categories
CategoryOptions ==
    {o \in GenOptions : /\ o.tags = 0 /\ o.posts = 0 /\ o.comments = 0
                        /\ ~o.publish_events /\ ~o.clear /\ o.confirm = "no"}

CategoryBodies == Supplying(PostInputs, {"category", "status"})

NextCategories ==
    \/ \E o \in CategoryOptions : generate_blog(o)
    \/ \E cid \in 1..MaxCategoryId : CategoryAdmin_delete(cid)
    \/ \E u \in Requesters : \E slug \in Slugs : PostViewSet_update(u, slug, CategoryBodies)
    \/ \E u \in Requesters : \E slug \in Slugs : PostViewSet_retrieve(u, slug)

SpecCategories == Init /\ [][NextCategories]_vars

\* ---- deletions and what they take along
CategorisedBodies == Supplying(PostInputs, {"title", "body", "category"})
PlainComments == Supplying(CommentInputs, {"body"})

NextCascade ==
    \/ \E u \in Requesters : \E ip \in Ips :
          /\ cache_get_count(cache, rate_limit_key("create", ip)) < MaxWindowRequests
          /\ PostViewSet_create(u, ip, CategorisedBodies)
    \/ \E u \in Requesters : \E slug \in Slugs : PostViewSet_update(u, slug, CategoryBodies)
    \/ \E u \in Requesters : \E slug \in Slugs : PostViewSet_comments(u, slug, PlainComments)
    \/ \E u \in Requesters : \E slug \in Slugs : PostViewSet_destroy(u, slug)
    \/ \E u \in Requesters : \E pk \in UserIds : UserViewSet_destroy(u, pk)
    \/ \E cid \in 1..MaxCategoryId : CategoryAdmin_delete(cid)

SpecCascade == Init /\ [][NextCascade]_vars

\* ---- comment events and the listener
EventOptions ==
    {o \in GenOptions : /\ o.categories = 0 /\ o.tags = 0 /\ o.posts = 0
                        /\ o.comments = 1 /\ ~o.clear /\ o.confirm = "no"}

NextEvents ==
    \/ \E u \in Requesters : \E slug \in Slugs : PostViewSet_comments(u, slug, PlainComments)
    \/ \E o \in EventOptions : generate_blog(o)
    \/ publish_raw
    \/ listen_comments_message
    \/ listen_comments_interrupt

SpecEvents == Init /\ [][NextEvents]_vars

\* ---- the redis server stops answering and answers again
redis_connectivity(reachable) ==
    /\ redis_reachable # reachable
    /\ redis_reachable' = reachable
    /\ resp' = Response("redis", Anonymous, "", 0, 0)
    /\ UNCHANGED <<db, cache, pubsub, listener, requests>>

NextOutage ==
    \/ \E reachable \in BOOLEAN : redis_connectivity(reachable)
    \/ \E u \in Requesters : \E slug \in Slugs : PostViewSet_comments(u, slug, PlainComments)

SpecOutage == Init /\ [][NextOutage]_vars

\* ---- posts while the redis server stops answering and answers again
OutageBodies == {d \in Supplying(PostInputs, {"title", "body"}) : d.title = "World"}

NextCacheOutage ==
    \/ \E reachable \in BOOLEAN : redis_connectivity(reachable)
    \/ \E u \in Requesters : PostViewSet_list(u, NoQuery)
    \/ \E u \in Requesters : \E ip \in Ips :
          /\ cache_get_count(cache, rate_limit_key("create", ip)) < MaxWindowRequests
          /\ PostViewSet_create(u, ip, OutageBodies)
    \/ \E u \in Requesters : \E slug \in Slugs : PostViewSet_update(u, slug, OutageBodies)
    \/ \E u \in Requesters : \E slug \in Slugs : PostViewSet_destroy(u, slug)

SpecCacheOutage == Init /\ [][NextCacheOutage]_vars

\* ---- partial updates of a post
EditBodies ==
    {d \in Supplying(PostInputs, {"title", "body", "category", "tags", "status"}) :
        ~({"category", "tags"} \subseteq d.supplied)}

NextEdit ==
    \/ \E u \in Requesters : \E slug \in Slugs : PostViewSet_update(u, slug, EditBodies)
    \/ \E u \in Requesters : \E slug \in Slugs : PostViewSet_retrieve(u, slug)
    \/ \E u \in Requesters : PostViewSet_list(u, NoQuery)

SpecEdit == Init /\ [][NextEdit]_vars

\* ---- the generator's posts and comments
CommentTargetOptions ==
    {o \in GenOptions : /\ o.categories = 0 /\ o.tags = 0
                        /\ ~o.publish_events /\ ~o.clear /\ o.confirm = "no"}

NextCommentTargets ==
    \/ \E o \in CommentTargetOptions : generate_blog(o)
    \/ \E u \in Requesters : \E slug \in Slugs : PostViewSet_destroy(u, slug)

SpecCommentTargets == Init /\ [][NextCommentTargets]_vars

\* ---- logins served by concurrent workers
RaceLogins == {d \in LoginInputs : LoginSerializer_is_valid(d) = "valid"}

NextLoginRace ==
    \/ \E ip \in Ips : AuthViewSet_login_get(ip)
    \/ \E r \in 1..MaxRaceRequests : AuthViewSet_login_set(r, RaceLogins)

SpecLoginRace == Init /\ [][NextLoginRace]_vars

\* ---- the quota of post creation, with the clock
QuotaBodies == Supplying(PostInputs, {"title", "body"})

NextQuota ==
    \/ \E u \in Requesters : \E ip \in Ips : PostViewSet_create(u, ip, QuotaBodies)
    \/ clock_tick

SpecQuota == Init /\ [][NextQuota]_vars

\* ---- anonymous lists served by concurrent workers while posts are written
NextListRace ==
    \/ PostViewSet_list_get
    \/ \E r \in 1..MaxListRequests : PostViewSet_list_query(r)
    \/ \E r \in 1..MaxListRequests : PostViewSet_list_set(r)
    \/ \E u \in Requesters : \E slug \in Slugs : PostViewSet_update(u, slug, UpdateBodies)
    \/ \E u \in Requesters : \E slug \in Slugs : PostViewSet_destroy(u, slug)

SpecListRace == Init /\ [][NextListRace]_vars

\* ---- the cached list and the writers outside the post endpoints
CoherenceOptions ==
    {o \in GenOptions : /\ o.categories = 0 /\ o.tags = 0 /\ o.posts = 1
                        /\ o.comments = 0 /\ ~o.publish_events /\ ~o.clear
                        /\ o.confirm = "no"}

NextCoherence ==
    \/ PostViewSet_list(Anonymous, NoQuery)
    \/ \E u \in Requesters : \E slug \in Slugs : PostViewSet_update(u, slug, UpdateBodies)
    \/ \E u \in Requesters : \E pk \in UserIds : UserViewSet_destroy(u, pk)
    \/ \E o \in CoherenceOptions : generate_blog(o)
    \/ \E key \in DOMAIN cache : cache_expire(key)

SpecCoherence == Init /\ [][NextCoherence]_vars

\* ---- the user generator
NextGenerateUsers ==
    \/ \E o \in UserGenOptions : generate_users(o)
    \/ \E u \in Requesters : \E pk \in 1..MaxGeneratedUserId : UserViewSet_destroy(u, pk)

SpecGenerateUsers == Init /\ [][NextGenerateUsers]_vars

\* ---- posts and their comments
AuthoredBodies == Supplying(PostInputs, {"title", "body", "author"})
RetitleBodies == Supplying(PostInputs, {"title", "author"})

NextComments ==
    \/ \E u \in Requesters : \E ip \in Ips :
          /\ cache_get_count(cache, rate_limit_key("create", ip)) < MaxWindowRequests
          /\ PostViewSet_create(u, ip, AuthoredBodies)
    \/ \E u \in Requesters : \E slug \in Slugs : PostViewSet_update(u, slug, RetitleBodies)
    \/ \E u \in Requesters : \E slug \in Slugs : PostViewSet_destroy(u, slug)
    \/ \E u \in Requesters : \E slug \in Slugs : PostViewSet_comments(u, slug, CommentInputs)
    \/ \E u \in Requesters : \E pk \in 1..MaxCommentId : CommentViewSet_destroy(u, pk)
    \/ \E u \in Requesters : \E pk \in 1..MaxCommentId :
          CommentViewSet_partial_update(u, pk, CommentInputs)

SpecComments == Init /\ [][NextComments]_vars

\* ---- accounts
NextUsers ==
    \/ \E u \in Requesters : \E pk \in UserIds : UserViewSet_destroy(u, pk)
    \/ \E u \in Requesters : \E pk \in UserIds :
          UserViewSet_update_profile(u, pk, ProfileInputs)
    \/ \E u \in Requesters : \E pk \in UserIds :
          UserViewSet_change_password(u, pk, PasswordInputs)
    \/ \E u \in Requesters : \E slug \in Slugs : PostViewSet_comments(u, slug, CommentInputs)

SpecUsers == Init /\ [][NextUsers]_vars

\* ==================================================================== claims
\* the author of the post a slug names, in the current state
AuthorOf(slug) == {posts[id].author : id \in PostBySlug(slug)}

\* C1: an update request on an existing post by anyone who is not its author
\* (another authenticated user, or an unauthenticated client) is answered 401
\* and leaves every post as it was.
C1_UpdateAuthorOnly ==
    [][ (resp'.op = "update" /\ PostBySlug(resp'.slug) # {}
            /\ resp'.user \notin AuthorOf(resp'.slug))
        => (resp'.status = HTTP_401_UNAUTHORIZED /\ posts' = posts) ]_vars

C1_Witness ==
    /\ resp.op = "update"
    /\ resp.status = HTTP_401_UNAUTHORIZED
    /\ resp.user \in DOMAIN users
    /\ PostBySlug(resp.slug) # {}
    /\ resp.user \notin AuthorOf(resp.slug)

\* C2: a DELETE on an existing post by an authenticated user who is not its
\* author is answered 401 and removes neither the post nor its comments.
C2_DeleteAuthorOnly ==
    [][ (resp'.op = "destroy" /\ PostBySlug(resp'.slug) # {}
            /\ resp'.user # Anonymous
            /\ resp'.user \notin AuthorOf(resp'.slug))
        => (resp'.status = HTTP_401_UNAUTHORIZED
            /\ posts' = posts /\ comments' = comments) ]_vars

\* C3: the payload of an anonymous list-posts response, computed or cached,
\* holds no post whose status in the database is draft.
C3_AnonymousListNoDraft ==
    (resp.op = "list" /\ resp.user = Anonymous) =>
        \A i \in 1..Len(resp.posts) :
            resp.posts[i].id \in DOMAIN posts =>
                posts[resp.posts[i].id].status # DRAFT

C3_Witness ==
    /\ resp.op = "list"
    /\ resp.user = Anonymous
    /\ resp.log = "hit"
    /\ Len(resp.posts) > 0
    /\ \E id \in DOMAIN posts : posts[id].status = DRAFT

\* C4: a retrieve-by-slug answered 200 returns a published post, or a draft
\* to its own author only.
C4_RetrieveRespectsStatus ==
    (resp.op = "retrieve" /\ resp.status = HTTP_200_OK) =>
        \A i \in 1..Len(resp.posts) :
            \/ resp.posts[i].status = PUBLISHED
            \/ resp.posts[i].author_info.id = resp.user

C6_ChangePasswordChecked ==
    [][ /\ \A u \in UserIds : \A d \in PasswordInputs :
              ( /\ u \in DOMAIN users
                /\ UserViewSet_change_password(u, u, {d})
                /\ \/ ~check_password(users[u], d.old_password)
                   \/ d.new_password # d.new_password_confirm )
              => (resp'.status = HTTP_400_BAD_REQUEST /\ users' = users)
        /\ \A u \in DOMAIN users \cap DOMAIN users' :
              users'[u].password # users[u].password =>
                  (resp'.op = "change_password" /\ resp'.pk = u)
      ]_vars

\* C7: a partial-update or delete request on an existing comment by anyone
\* who is not its author is answered 401 and changes no comment; a comment
\* endpoint changes the comment table only for the comment's author, and
\* then only the addressed comment.
C7_CommentWritesAuthorOnly ==
    [][ resp'.op \in {"comment_update", "comment_destroy"} =>
          /\ (resp'.pk \in DOMAIN comments /\ comments[resp'.pk].author # resp'.user)
                => (resp'.status = HTTP_401_UNAUTHORIZED /\ comments' = comments)
          /\ resp'.user = Anonymous
                => (resp'.status = HTTP_401_UNAUTHORIZED /\ comments' = comments)
          /\ comments' # comments =>
                /\ resp'.pk \in DOMAIN comments
                /\ comments[resp'.pk].author = resp'.user
                /\ \A c \in DOMAIN comments \ {resp'.pk} :
                      c \in DOMAIN comments' /\ comments'[c] = comments[c]
      ]_vars

C7_Witness ==
    /\ resp.op \in {"comment_update", "comment_destroy"}
    /\ resp.status = HTTP_401_UNAUTHORIZED
    /\ resp.user \in DOMAIN users
    /\ resp.pk \in DOMAIN comments
    /\ comments[resp.pk].author # resp.user

\* C8: a post or comment that a step creates has the requester as its author
\* (and, for a comment, the post of the request path as its post), whatever
\* the request body supplies; no step changes the author of a post or the
\* author or post of a comment that stays.
C8_AuthorIsRequester ==
    [][ /\ \A id \in DOMAIN posts' :
              IF id \in DOMAIN posts
              THEN posts'[id].author = posts[id].author
              ELSE resp'.op = "create" /\ posts'[id].author = resp'.user
        /\ \A c \in DOMAIN comments' :
              IF c \in DOMAIN comments
              THEN /\ comments'[c].author = comments[c].author
                   /\ comments'[c].post = comments[c].post
              ELSE /\ resp'.op = "comment_create"
                   /\ comments'[c].author = resp'.user
                   /\ comments'[c].post \in PostBySlug(resp'.slug)
      ]_vars

C8_Witness ==
    /\ \E id \in DOMAIN posts : posts[id].slug = "" /\ posts[id].author = 2
    /\ \E id \in DOMAIN posts : posts[id].slug = "hello" /\ posts[id].title = "World"
    /\ resp.op = "comment_update"
    /\ resp.status = HTTP_200_OK
    /\ comments[resp.pk].body = "good"

\* C9: after a successful post create, update or delete no list is cached and
\* the next anonymous list is computed from the database; a cached list
\* agrees with the database on every post that exists and holds every
\* published post.
C9_WritesInvalidateList ==
    /\ (resp.op \in {"create", "update", "destroy"}
            /\ resp.status \in {HTTP_201_CREATED, HTTP_200_OK, HTTP_204_NO_CONTENT})
        => (~cache_has(cache, published_posts_key)
            /\ list_response(Anonymous).log = "miss")
    /\ cache_has(cache, published_posts_key) =>
        LET cached == cache[published_posts_key] IN
        /\ \A i \in 1..Len(cached) :
              cached[i].id \in DOMAIN posts =>
                  /\ cached[i].title = posts[cached[i].id].title
                  /\ cached[i].body = posts[cached[i].id].body
                  /\ cached[i].status = posts[cached[i].id].status
                  /\ cached[i].slug = posts[cached[i].id].slug
        /\ \A id \in published_queryset : \E i \in 1..Len(cached) : cached[i].id = id

C9_Witness ==
    /\ resp.op = "list"
    /\ resp.user = Anonymous
    /\ resp.log = "miss"
    /\ Len(resp.posts) = 2
    /\ \E i \in 1..2 : resp.posts[i].slug = "hello" /\ resp.posts[i].title = "World"
    /\ cache_hit(cache)

\* C10: right after an anonymous list-posts response, an identical request
\* is served from the cache with the same payload, whatever the dataset.
C10_SecondListFromCache ==
    (resp.op = "list" /\ resp.user = Anonymous) =>
        /\ list_response(Anonymous).log = "hit"
        /\ list_response(Anonymous).posts = resp.posts

\* C11: an anonymous list request uses a cache key that no request with a
\* different combination of page, ordering, search, category and status
\* uses, and it neither creates nor replaces the entry of such a request.
C11_CacheKeyPerQuery ==
    [][ (resp'.op = "list" /\ resp'.user = Anonymous) =>
          \A q \in QueryParams \ {resp'.query} :
              /\ list_cache_key(q) # list_cache_key(resp'.query)
              /\ cache_has(cache', list_cache_key(q)) = cache_has(cache, list_cache_key(q))
      ]_vars

\* C12: a login or registration request is refused with 429 only when the
\* requests counted against it (5 logins, 10 registrations) all arrived
\* within the last 60 seconds; once more than 60 seconds have passed since
\* the first of them the next request is processed.
C12_RefusedOnlyWithinWindow ==
    (resp.op \in {"login", "register"} /\ resp.status = HTTP_429_TOO_MANY_REQUESTS) =>
        cache_get_age(cache, rate_limit_key(resp.op, resp.ip)) <= RateWindow

\* C13: a login request that is not rate-limited is answered 400 without
\* tokens when its email matches no account, its password is wrong or the
\* account is inactive, and 200 with a token pair otherwise.
C13_LoginChecked ==
    [][ \A ip \in Ips : \A d \in LoginInputs :
          (AuthViewSet_login(ip, {d}) /\ ~is_rate_limited(cache, "login", ip, LoginLimit))
          => IF authenticate(d.email, d.password) = {}
             THEN resp'.status = HTTP_400_BAD_REQUEST /\ ~resp'.tokens
             ELSE resp'.status = HTTP_200_OK /\ resp'.tokens
      ]_vars

\* the user rows a step adds
NewUsers == DOMAIN users' \ DOMAIN users

\* C14: a registration whose password differs from its confirmation is
\* answered 400 and leaves the user table as it was; a registration that is
\* not rate-limited, with matching passwords, a name and an address that no
\* account uses, is answered 201 and adds exactly one row, an active account
\* that is neither staff nor superuser, leaving the other rows as they were.
C14_RegisterChecked ==
    [][ \A ip \in Ips : \A d \in RegisterInputs :
          (AuthViewSet_register(ip, {d}) /\ ~is_rate_limited(cache, "register", ip, RegisterLimit))
          => /\ d.password # d.password1 =>
                   (resp'.status = HTTP_400_BAD_REQUEST /\ users' = users)
             /\ ( /\ d.password = d.password1
                  /\ EmailField_is_valid(d.email)
                  /\ d.full_name # ""
                  /\ UserByEmail(lower(d.email)) = {} )
                => /\ resp'.status = HTTP_201_CREATED
                   /\ Cardinality(NewUsers) = 1
                   /\ \A u \in NewUsers :
                         /\ users'[u].is_active
                         /\ ~users'[u].is_staff
                         /\ ~users'[u].is_superuser
                         /\ users'[u].email = lower(d.email)
                         /\ check_password(users'[u], d.password)
                   /\ \A u \in DOMAIN users : u \in DOMAIN users' /\ users'[u] = users[u]
      ]_vars

C14_Witness ==
    /\ resp.op = "register"
    /\ resp.status = HTTP_201_CREATED
    /\ resp.pk \in DOMAIN users
    /\ users[resp.pk].email = "c@x.io"
    /\ users[resp.pk].full_name = "Bob"
    /\ cache_get_count(cache, rate_limit_key("register", resp.ip)) > 1

\* C15: a create request by an authenticated user that is not rate-limited
\* and carries a title, a body and otherwise valid fields is answered 400
\* and adds no post when the title has fewer than 5 characters, and is
\* answered 201 and adds the post otherwise - at every create of a sequence.
C15_TitleLengthDecides ==
    [][ \A u \in DOMAIN users : \A ip \in Ips : \A d \in CreateBodies :
          ( /\ PostViewSet_create(u, ip, {d})
            /\ ~is_rate_limited(cache, "create", ip, CreateLimit)
            /\ {"title", "body"} \subseteq d.supplied )
          => IF StrLen(d.title) < MinTitleLen
             THEN resp'.status = HTTP_400_BAD_REQUEST /\ posts' = posts
             ELSE /\ resp'.status = HTTP_201_CREATED
                  /\ resp'.pk \in DOMAIN posts' \ DOMAIN posts
                  /\ posts'[resp'.pk].title = d.title
      ]_vars

\* C16: every post has a non-empty slug and no two posts share a slug.
C16_SlugsDistinctNonEmpty ==
    \A i \in DOMAIN posts :
        /\ posts[i].slug # ""
        /\ \A j \in DOMAIN posts : i # j => posts[i].slug # posts[j].slug

\* C17: a generator run that creates a category under a name that a category
\* already has adds a second category of that name whose slug carries a
\* numeric suffix, and no two categories ever share a slug.
C17_SameNameGetsSuffix ==
    [][ (resp'.op = "generate_blog" /\ resp'.log = "done") =>
          /\ \A i \in DOMAIN resp'.names :
                (\E c \in DOMAIN categories : categories[c].name = resp'.names[i])
                => \E k \in DOMAIN categories' \ DOMAIN categories :
                      /\ categories'[k].name = resp'.names[i]
                      /\ categories'[k].slug \in
                            {Suffixed(slugify(resp'.names[i]), n) : n \in 1..MaxCategoryId}
          /\ \A j, k \in DOMAIN categories' :
                j # k => categories'[j].slug # categories'[k].slug
      ]_vars

\* every foreign key of a post or comment names a row that exists
ReferencesExist ==
    /\ \A p \in DOMAIN posts :
          /\ posts[p].author \in DOMAIN users
          /\ posts[p].category = NoCategory \/ posts[p].category \in DOMAIN categories
    /\ \A c \in DOMAIN comments :
          /\ comments[c].post \in DOMAIN posts
          /\ comments[c].author \in DOMAIN users

\* the rows of `after' are the rows of `before' whose key is not in `gone'
RowsLeft(before, after, gone) ==
    /\ DOMAIN after = DOMAIN before \ gone
    /\ \A k \in DOMAIN after : after[k] = before[k]

\* C18: deleting a category keeps every post, sets the category of the posts
\* that referenced it to absent and changes nothing else; deleting a user
\* removes exactly that user's posts, that user's comments and the comments
\* on those posts; deleting a post removes exactly its comments; and in
\* every state all references of posts and comments name existing rows.
C18_Cascades ==
    /\ []ReferencesExist
    /\ [][ /\ resp'.op = "admin_category_delete" =>
                 /\ DOMAIN posts' = DOMAIN posts
                 /\ \A p \in DOMAIN posts :
                       /\ posts'[p].category =
                             IF posts[p].category = resp'.pk THEN NoCategory
                             ELSE posts[p].category
                       /\ [posts'[p] EXCEPT !.category = NoCategory]
                             = [posts[p] EXCEPT !.category = NoCategory]
                 /\ comments' = comments /\ users' = users
           /\ (resp'.op = "user_destroy" /\ resp'.status = HTTP_205_RESET_CONTENT) =>
                 /\ RowsLeft(users, users', {resp'.pk})
                 /\ RowsLeft(posts, posts', PostsOf(resp'.pk))
                 /\ RowsLeft(comments, comments',
                        {c \in DOMAIN comments :
                            \/ comments[c].author = resp'.pk
                            \/ posts[comments[c].post].author = resp'.pk})
           /\ (resp'.op = "destroy" /\ resp'.status = HTTP_204_NO_CONTENT) =>
                 /\ RowsLeft(posts, posts', PostBySlug(resp'.slug))
                 /\ RowsLeft(comments, comments',
                        {c \in DOMAIN comments : comments[c].post \in PostBySlug(resp'.slug)})
                 /\ users' = users
         ]_vars

C18_Witness ==
    /\ resp.op = "user_destroy"
    /\ resp.status = HTTP_205_RESET_CONTENT
    /\ resp.pk = 1
    /\ Len(pubsub) = 1
    /\ pubsub[1].value.data.author_id = 2
    /\ pubsub[1].value.data.post_id = 1
    /\ DOMAIN comments = {}
    /\ DOMAIN posts = {2}
    /\ DOMAIN categories = {}
    /\ posts[2].category = NoCategory

\* the comments a step adds
NewComments == DOMAIN comments' \ DOMAIN comments

\* C19: a step that creates comments through the API, or through the
\* generator with --publish-events, publishes one JSON message per created
\* comment, of event kind comment_created and with data.id the comment's
\* identifier, and the listener prints the summary of each such message.
C19_CommentCreatedEvent ==
    [][ /\ ( NewComments # {}
             /\ \/ resp'.op = "comment_create"
                \/ resp'.op = "generate_blog" /\ Len(pubsub') > Len(pubsub) )
           => /\ Len(pubsub') = Len(pubsub) + Cardinality(NewComments)
              /\ \A c \in NewComments :
                    \E i \in (Len(pubsub) + 1)..Len(pubsub') :
                        /\ pubsub'[i].kind = "json"
                        /\ pubsub'[i].value.event = "comment_created"
                        /\ "id" \in DOMAIN pubsub'[i].value.data
                        /\ pubsub'[i].value.data.id = c
        /\ ( resp'.op = "listen"
             /\ pubsub[listener'.pos].kind = "json" )
           => /\ Len(listener'.out) = Len(listener.out) + 1
              /\ listener'.out[Len(listener'.out)].line = "summary"
      ]_vars

\* C20: no message ends the listener: it is listening until the operator
\* interrupts it.
C20_ListenerSurvives == listener.state \in {"listening", "stopped"}

\* C21: a valid comment of an authenticated user on an existing post, sent
\* while the redis server does not answer, is stored and answered with 201.
C21_CommentSurvivesOutage ==
    [][\A u \in UserIds : \A slug \in Slugs : \A d \in PlainComments :
          ( /\ PostViewSet_comments(u, slug, {d})
            /\ ~redis_reachable
            /\ is_authenticated(u)
            /\ CommentSerializer_is_valid(d)
            /\ PostBySlug(slug) # {} )
          => /\ resp'.status = HTTP_201_CREATED
             /\ \E c \in DOMAIN comments' \ DOMAIN comments :
                    /\ comments'[c].author = u
                    /\ comments'[c].post \in PostBySlug(slug)
                    /\ comments'[c].body = d.body]_vars

\* a comment was stored and answered with 201 although nothing was published
C21_Witness ==
    /\ ~redis_reachable
    /\ resp.op = "comment_create"
    /\ resp.status = HTTP_201_CREATED
    /\ pubsub = << >>
    /\ resp.pk \in DOMAIN comments

\* C22: while the redis server does not answer, a valid create, update or
\* delete of a post by its author is stored and answered with 201, 200 or
\* 204, and an anonymous list is answered with 200 and the published posts.
C22_CacheFailureNotSurfaced ==
    [][~redis_reachable =>
        /\ \A u \in UserIds : \A ip \in Ips : \A d \in OutageBodies :
              (PostViewSet_create(u, ip, {d}) /\ CreatePostSerializer_is_valid(d)
                    /\ PostBySlug(CreatePostSerializer_create(u, d).slug) = {})
              => /\ resp'.status = HTTP_201_CREATED
                 /\ resp'.pk \in DOMAIN posts' \ DOMAIN posts
        /\ \A u \in UserIds : \A slug \in Slugs : \A d \in OutageBodies :
              (PostViewSet_update(u, slug, {d}) /\ EditPostSerializer_is_valid(d)
                    /\ AuthorOf(slug) = {u})
              => /\ resp'.status = HTTP_200_OK
                 /\ \A id \in PostBySlug(slug) :
                        posts'[id] = EditPostSerializer_update(posts[id], d)
        /\ \A u \in UserIds : \A slug \in Slugs :
              (PostViewSet_destroy(u, slug) /\ AuthorOf(slug) = {u})
              => /\ resp'.status = HTTP_204_NO_CONTENT
                 /\ PostBySlug(slug) \cap DOMAIN posts' = {}
        /\ PostViewSet_list(Anonymous, NoQuery)
              => /\ resp'.status = HTTP_200_OK
                 /\ resp'.posts = PostSerializerMany(published_queryset)]_vars

\* C23: an update by the author leaves each of title, body, category and
\* status as it was when the input omits it; supplied tags (the empty list
\* included) become the tag set, omitted tags leave it as it was; an update
\* answered 400 changes no post.
C23_PartialUpdateFrame ==
    [][\A u \in UserIds : \A slug \in Slugs :
       (resp'.op = "update" /\ resp'.user = u /\ resp'.slug = slug) =>
       \A d \in EditBodies :
          (PostViewSet_update(u, slug, {d}) /\ AuthorOf(slug) = {u})
          => /\ resp'.status \in {HTTP_200_OK, HTTP_400_BAD_REQUEST}
             /\ resp'.status = HTTP_400_BAD_REQUEST => posts' = posts
             /\ resp'.status = HTTP_200_OK =>
                   \A id \in PostBySlug(slug) :
                      /\ \A f \in {"title", "body", "category", "status"} \ d.supplied :
                            posts'[id][f] = posts[id][f]
                      /\ "tags" \in d.supplied => posts'[id].tags = d.tags
                      /\ "tags" \notin d.supplied => posts'[id].tags = posts[id].tags]_vars

\* the author's last update succeeded on a post that has both a tag and a
\* category: one input carries at most one of the two, so the other was
\* omitted and kept
C23_Witness ==
    /\ resp.op = "update"
    /\ resp.status = HTTP_200_OK
    /\ resp.pk \in DOMAIN posts
    /\ posts[resp.pk].tags # {}
    /\ posts[resp.pk].category # NoCategory

\* C24: the payload of a list-posts response to an authenticated user holds
\* exactly the posts that are published or written by that user: each of
\* them once, and no draft of another author.
C24_AuthenticatedListExact ==
    (resp.op = "list" /\ resp.user # Anonymous) =>
        /\ resp.status = HTTP_200_OK
        /\ {resp.posts[i].id : i \in 1..Len(resp.posts)} =
              {id \in DOMAIN posts : posts[id].status = PUBLISHED
                                        \/ posts[id].author = resp.user}
        /\ \A i, j \in 1..Len(resp.posts) :
              resp.posts[i].id = resp.posts[j].id => i = j
        /\ \A i \in 1..Len(resp.posts) : resp.posts[i] = PostSerializer(resp.posts[i].id)

\* a user was listed their own draft while another author's draft exists
C24_Witness ==
    /\ resp.op = "list"
    /\ resp.user # Anonymous
    /\ \E i \in 1..Len(resp.posts) :
          resp.posts[i].status = DRAFT /\ resp.posts[i].author_info.id = resp.user
    /\ \E id \in DOMAIN posts : posts[id].status = DRAFT /\ posts[id].author # resp.user

\* C25: a run of the user generator with 0 <= superusers <= count adds
\* exactly `count' users, all addresses of the table are pairwise distinct
\* afterwards, exactly `superusers' of the new users are superuser and staff
\* and the others are neither; a run with superusers > count or a negative
\* count changes no table, --clear or not.
C25_UserGeneratorExact ==
    [][\A o \in UserGenOptions :
          (generate_users(o) /\ o.superusers >= 0) =>
          LET new == DOMAIN users' \ DOMAIN users IN
          IF o.count < 0 \/ o.superusers > o.count
          THEN users' = users /\ posts' = posts /\ comments' = comments
          ELSE /\ Cardinality(new) = o.count
               /\ \A u, v \in DOMAIN users' :
                     users'[u].email = users'[v].email => u = v
               /\ Cardinality({u \in new : users'[u].is_superuser
                                              /\ users'[u].is_staff}) = o.superusers
               /\ Cardinality({u \in new : ~users'[u].is_superuser
                                              /\ ~users'[u].is_staff})
                      = o.count - o.superusers]_vars

\* C26: every comment a run of the blog generator creates is on a post that
\* is published, whether the run generated posts or used the existing ones;
\* with no published post the run creates no comment.
C26_GeneratedCommentsOnPublished ==
    [][\A o \in CommentTargetOptions :
          generate_blog(o) =>
             /\ \A c \in DOMAIN comments' \ DOMAIN comments :
                    /\ comments'[c].post \in DOMAIN posts'
                    /\ posts'[comments'[c].post].status = PUBLISHED
             /\ (\A id \in DOMAIN posts' : posts'[id].status # PUBLISHED)
                    => DOMAIN comments' \subseteq DOMAIN comments]_vars

\* C27: while a counter key is alive, at most `limit' requests of one client
\* address for one action are admitted, however the requests of concurrent
\* workers interleave, and no two admitted requests have read the same
\* counter value.  (No counter expires in SpecLoginRace.)
C27_RateLimitUnderConcurrency ==
    /\ \A ip \in Ips :
          Cardinality({r \in DOMAIN requests :
                          /\ requests[r].action = "login"
                          /\ requests[r].ip = ip
                          /\ requests[r].pc = "admitted"}) <= LoginLimit
    /\ \A r1, r2 \in DOMAIN requests :
          ( /\ r1 # r2
            /\ requests[r1].pc = "admitted" /\ requests[r2].pc = "admitted"
            /\ requests[r1].action = requests[r2].action
            /\ requests[r1].ip = requests[r2].ip )
          => requests[r1].count # requests[r2].count

\* C28: every create-post request that is not answered 429 - the ones
\* answered 401 or 400 included, whoever sends it from the address - adds
\* one to the counter of the address; a request answered 429 leaves the
\* counter entry, its expiry included, as it was; the counter is never
\* above 20.
C28_CreateQuotaAccounting ==
    [][\A u \in Requesters : \A ip \in Ips :
       (resp'.op = "create" /\ resp'.user = u) =>
       \A d \in QuotaBodies :
          PostViewSet_create(u, ip, {d}) =>
             /\ resp'.status = HTTP_429_TOO_MANY_REQUESTS => cache' = cache
             /\ resp'.status # HTTP_429_TOO_MANY_REQUESTS =>
                   cache_get_count(cache', rate_limit_key("create", ip))
                      = cache_get_count(cache, rate_limit_key("create", ip)) + 1
             /\ cache_get_count(cache', rate_limit_key("create", ip)) <= CreateLimit]_vars

\* C29: whenever no list request is in progress, a cached list agrees with
\* the database: a list computed before a post was written is not in the
\* cache once the list request and the write have both finished, however
\* their steps interleave.
C29_NoStaleListAfterRace ==
    ( /\ \A r \in DOMAIN requests : requests[r].pc = "done"
      /\ cache_has(cache, published_posts_key) )
    => cache[published_posts_key] = PostSerializerMany(published_queryset)

\* C30: after any sequence of completed operations - account deletions and
\* generator runs included - a cached anonymous list that a list request
\* would be served is the list of the published posts of the database; it
\* holds no post that is gone.
C30_CacheCoherent ==
    cache_hit(cache) =>
        /\ cache[published_posts_key] = PostSerializerMany(published_queryset)
        /\ \A i \in 1..Len(cache[published_posts_key]) :
              cache[published_posts_key][i].id \in DOMAIN posts

====
